---- MODULE Spec2Model ----
(***************************************************************************)
(* The real-time data session of the InSight dashboard:                    *)
(*   - AuthProvider (the credential: token, login, logout),                *)
(*   - WebSocketProvider (fetchInitialHistory, connect and the socket      *)
(*     handlers onopen / onmessage / onerror / onclose, the effect and its *)
(*     cleanup); hooks/useWebSocket.ts is the same code with the history   *)
(*     capacity as a parameter,                                            *)
(*   - LineChart (fetchForecast, the forecast interval effect and the      *)
(*     chart update effect that merges history and forecast).              *)
(*                                                                         *)
(* One action is one browser task: an event handler, the re-render its     *)
(* state updates cause and the effects of that render.  The browser's      *)
(* WebSocket objects, its timers and its pending fetches are the           *)
(* environment; their events are separate actions.                         *)
(***************************************************************************)
EXTENDS Integers, Sequences, FiniteSets, TLC

\* ------------------------------------------------------------ bounds

\* Capacity of the history (useWebSocket's parameter, 50 by default and in
\* WebSocketProvider), scaled down.
maxHistoryLength == 2
\* Fewest buffered points for a forecast fetch (10 in LineChart), scaled down
\* with the capacity.
minForecastPoints == 2
\* WebSocket objects created in one run.
MaxSockets == 3
\* Requests of one kind pending under one credential at a time.
MaxInFlight == 1

\* ------------------------------------------------- program constants

NormalClosure == 1000
ReconnectDelay == 3000

\* ------------------------------------------------------------ values

Tokens == {"a", "b"}
NoToken == "null"

NoError == "null"
ConnectionErrorText == "WebSocket connection error"

\* A timestamp is an instant: a calendar day and a time of day.
Timestamps ==
    { [day |-> 1, time |-> 1], [day |-> 1, time |-> 2], [day |-> 2, time |-> 1] }

Earlier(t, u) == t.day < u.day \/ (t.day = u.day /\ t.time < u.time)

\* The sensor has one reading per instant.
Reading(t) == 40 + 10 * t.day + t.time

DataPoints == { [timestamp |-> t, value |-> Reading(t)] : t \in Timestamps }

NoPoint == [timestamp |-> [day |-> 0, time |-> 0], value |-> 0]

\* Close codes a close event can carry: normal closure, no status received
\* (a close frame without a code), abnormal closure.
NoStatusCode == NormalClosure + 5
AbnormalCode == NormalClosure + 6

\* ------------------------------------------------------------- state

VARIABLES
    token,                \* AuthProvider: the credential, or NoToken
    latestValue,          \* WebSocketProvider state
    history,
    isConnected,
    connectionError,
    wsRef,                \* index into sockets of wsRef.current, 0 for null
    reconnectTimeoutRef,  \* id of the last reconnect timer set, 0 for null
    sockets,              \* every WebSocket created so far, in creation order
    reconnectTimers,      \* pending reconnect timeouts (set of timer records)
    historyFetches,       \* pending GET /data/history requests, per credential
    forecast,             \* LineChart state
    showForecast,
    forecastTimer,        \* credential of the pending forecast interval, or NoToken
    forecastFetches,      \* pending GET /data/forecast requests, per credential
    chart,                \* what the chart instance holds: labels and 3 datasets
    lineChartMounted      \* whether the route shown renders LineChart

providerVars == <<latestValue, history, isConnected, connectionError>>
sessionVars == <<wsRef, reconnectTimeoutRef, sockets, reconnectTimers>>
lineChartVars ==
    <<forecast, showForecast, forecastTimer, forecastFetches, chart, lineChartMounted>>
vars == <<token, providerVars, sessionVars, historyFetches, lineChartVars>>

\* ------------------------------------------------ the WebSocket object

\* A socket: the credential its handlers close over, its readyState, and how
\* close() was called on it: "no" (not called), "failed" (called while
\* CONNECTING, which fails the connection), "nocode" (close() while OPEN),
\* "normal" (close(1000, ...) while OPEN).
NewSocket(t) == [token |-> t, readyState |-> "CONNECTING", closing |-> "no"]

\* A closed socket fires no more events: nothing reads what its handlers
\* close over any more.
ClosedSocket == [token |-> NoToken, readyState |-> "CLOSED", closing |-> "no"]

\* WebSocket.close(code?): nothing on a CLOSING or CLOSED socket.
SocketClosed(socks, id, withNormalCode) ==
    IF id = 0 \/ socks[id].readyState \in {"CLOSING", "CLOSED"}
    THEN socks
    ELSE [socks EXCEPT
            ![id].readyState = "CLOSING",
            ![id].closing = IF socks[id].readyState = "CONNECTING" THEN "failed"
                            ELSE IF withNormalCode THEN "normal" ELSE "nocode"]

\* The codes the close event of a socket can carry.  A connection that never
\* opened ends abnormally; an open one is closed by the server or lost; a
\* closing handshake echoes what close() sent (nothing: no status received),
\* unless the connection is lost first.
CloseEventCodes(sock) ==
    CASE sock.readyState = "CONNECTING" -> {AbnormalCode}
      [] sock.readyState = "OPEN" -> {NormalClosure, AbnormalCode}
      [] sock.closing = "failed" -> {AbnormalCode}
      [] sock.closing = "nocode" -> {NoStatusCode, AbnormalCode}
      [] OTHER -> {NormalClosure, AbnormalCode}

SocketIds == 1..Len(sockets)

\* ------------------------------------------------- WebSocketProvider

\* updated.slice(-maxHistoryLength): slice(-0) is slice(0), the whole array.
SliceLast(s, n) ==
    IF n = 0 \/ Len(s) <= n THEN s ELSE SubSeq(s, Len(s) - n + 1, Len(s))

\* A variant that keeps the oldest entries: slice(0, maxHistoryLength).
HistoryAfterAppendKeepsOldest(prev, newDataPoint) ==
    IF Len(prev) + 1 <= maxHistoryLength
    THEN Append(prev, newDataPoint)
    ELSE SubSeq(Append(prev, newDataPoint), 1, maxHistoryLength)

\* setHistory(prev => [...prev, newDataPoint].slice(-maxHistoryLength))
HistoryAfterAppend(prev, newDataPoint) ==
    SliceLast(Append(prev, newDataPoint), maxHistoryLength)

\* setHistory(data) of fetchInitialHistory
HistoryAfterSnapshot(prev, data) == data

\* if (data.length > 0) setLatestValue(data[data.length - 1])
LatestAfterSnapshot(prev, data) ==
    IF Len(data) > 0 THEN data[Len(data)] ELSE prev

\* connect(): the sockets and wsRef.current it leaves.  t is the credential
\* the callback closes over.
Connect(socks, ref, t) ==
    IF t = NoToken
    THEN [sockets |-> socks, wsRef |-> ref]
    ELSE [sockets |-> Append(SocketClosed(socks, ref, FALSE), NewSocket(t)),
          wsRef |-> Len(socks) + 1]

\* A variant that takes every close for a failure.
ShouldReconnectOnAnyCode(code, t) == t # NoToken

\* onclose: if (event.code !== 1000 && token)
ShouldReconnect(code, t) == code # NormalClosure /\ t # NoToken

\* A reconnect timeout: its id (the socket whose close set it), the
\* credential its connect closes over, and its delay.
ReconnectTimer(id) ==
    [id |-> id, token |-> sockets[id].token, delay |-> ReconnectDelay]

\* the effect's cleanup: close(1000, ...) and clearTimeout
CleanupSockets(socks, ref) == SocketClosed(socks, ref, TRUE)

CleanupTimers(timers, ref) ==
    IF ref # 0 THEN { tm \in timers : tm.id # ref } ELSE timers

\* ---------------------------------------------------------- LineChart

\* A chart cell: null, or a number.
Null == <<>>
Cell(v) == <<v>>

\* new Array(n).fill(null)
Nulls(n) == [i \in 1..n |-> Null]

\* new Date(timestamp).toLocaleTimeString(): the time of day, without the date.
toLocaleTimeString(t) == t.time

NoForecast == [present |-> FALSE, predicted |-> <<>>, anomalies |-> <<>>]

ForecastPoint(t) == [timestamp |-> t, value |-> 60 + t.time]

AnomalyRecord(t) == [timestamp |-> t, value |-> Reading(t), is_anomaly |-> TRUE]

\* A variant whose predicted line does not start at the last actual point.
ChartUpdateWithoutJoin(old, h, f, show) ==
    IF lineChartMounted /\ Len(h) > 0
    THEN LET actualLabels == [i \in 1..Len(h) |-> toLocaleTimeString(h[i].timestamp)]
             actualValues == [i \in 1..Len(h) |-> Cell(h[i].value)]
             merged == show /\ f.present
             forecastLabels ==
                 [i \in 1..Len(f.predicted) |-> toLocaleTimeString(f.predicted[i].timestamp)]
             anomalyMap == { f.anomalies[i].timestamp : i \in 1..Len(f.anomalies) }
         IN  [labels |-> IF merged THEN actualLabels \o forecastLabels ELSE actualLabels,
              actual |-> IF merged THEN actualValues \o Nulls(Len(f.predicted))
                         ELSE actualValues,
              predicted |->
                  IF merged
                  THEN Nulls(Len(actualValues))
                       \o [i \in 1..Len(f.predicted) |-> Cell(f.predicted[i].value)]
                  ELSE Nulls(Len(actualValues)),
              anomalies |->
                  IF f.present
                  THEN [i \in 1..Len(h) |->
                           IF h[i].timestamp \in anomalyMap THEN Cell(h[i].value) ELSE Null]
                  ELSE Nulls(Len(actualValues))]
    ELSE old

\* A variant that marks every actual point once the snapshot has an anomaly.
ChartUpdateMarksEveryPoint(old, h, f, show) ==
    IF lineChartMounted /\ Len(h) > 0
    THEN LET actualLabels == [i \in 1..Len(h) |-> toLocaleTimeString(h[i].timestamp)]
             actualValues == [i \in 1..Len(h) |-> Cell(h[i].value)]
             merged == show /\ f.present
             forecastLabels ==
                 [i \in 1..Len(f.predicted) |-> toLocaleTimeString(f.predicted[i].timestamp)]
         IN  [labels |-> IF merged THEN actualLabels \o forecastLabels ELSE actualLabels,
              actual |-> IF merged THEN actualValues \o Nulls(Len(f.predicted))
                         ELSE actualValues,
              predicted |->
                  IF merged
                  THEN Nulls(Len(actualValues) - 1)
                       \o <<actualValues[Len(actualValues)]>>
                       \o [i \in 1..Len(f.predicted) |-> Cell(f.predicted[i].value)]
                  ELSE Nulls(Len(actualValues)),
              anomalies |->
                  IF f.present /\ f.anomalies # <<>>
                  THEN actualValues
                  ELSE Nulls(Len(actualValues))]
    ELSE old

\* The chart update effect (it runs when history, forecast or showForecast
\* changed): what the chart instance holds afterwards.
ChartUpdate(old, h, f, show) ==
    IF lineChartMounted /\ Len(h) > 0
    THEN LET actualLabels == [i \in 1..Len(h) |-> toLocaleTimeString(h[i].timestamp)]
             actualValues == [i \in 1..Len(h) |-> Cell(h[i].value)]
             merged == show /\ f.present
             forecastLabels ==
                 [i \in 1..Len(f.predicted) |-> toLocaleTimeString(f.predicted[i].timestamp)]
             anomalyMap == { f.anomalies[i].timestamp : i \in 1..Len(f.anomalies) }
         IN  [labels |-> IF merged THEN actualLabels \o forecastLabels ELSE actualLabels,
              actual |-> IF merged THEN actualValues \o Nulls(Len(f.predicted))
                         ELSE actualValues,
              predicted |->
                  IF merged
                  THEN Nulls(Len(actualValues) - 1)
                       \o <<actualValues[Len(actualValues)]>>
                       \o [i \in 1..Len(f.predicted) |-> Cell(f.predicted[i].value)]
                  ELSE Nulls(Len(actualValues)),
              anomalies |->
                  IF f.present
                  THEN [i \in 1..Len(h) |->
                           IF h[i].timestamp \in anomalyMap THEN Cell(h[i].value) ELSE Null]
                  ELSE Nulls(Len(actualValues))]
    ELSE old

\* A variant that asks for a forecast whatever the history holds.
ForecastWantedWithAnyHistory(t, len) == t # NoToken

\* if (token && history.length >= 10)
ForecastWanted(t, len) == t # NoToken /\ len >= minForecastPoints

\* A variant whose cleanup leaves the interval running.
ForecastEffectKeepsInterval(newToken, newLen) ==
    IF ~lineChartMounted \/ <<newToken, newLen>> = <<token, Len(history)>>
    THEN UNCHANGED <<forecastTimer, forecastFetches>>
    ELSE IF ForecastWanted(newToken, newLen)
         THEN /\ forecastFetches[newToken] < MaxInFlight
              /\ forecastFetches' = [forecastFetches EXCEPT ![newToken] = @ + 1]
              /\ forecastTimer' = newToken
         ELSE UNCHANGED <<forecastTimer, forecastFetches>>

\* A variant without dependencies: the effect runs after every render.
ForecastEffectOnEveryRender(newToken, newLen) ==
    IF ~lineChartMounted
    THEN UNCHANGED <<forecastTimer, forecastFetches>>
    ELSE IF ForecastWanted(newToken, newLen)
         THEN /\ forecastFetches[newToken] < MaxInFlight
              /\ forecastFetches' = [forecastFetches EXCEPT ![newToken] = @ + 1]
              /\ forecastTimer' = newToken
         ELSE /\ forecastTimer' = NoToken
              /\ UNCHANGED forecastFetches

\* The forecast effect, deps [token, history.length]: its cleanup clears the
\* interval; when wanted it fetches at once and sets a new interval.
ForecastEffect(newToken, newLen) ==
    IF ~lineChartMounted \/ <<newToken, newLen>> = <<token, Len(history)>>
    THEN UNCHANGED <<forecastTimer, forecastFetches>>
    ELSE IF ForecastWanted(newToken, newLen)
         THEN /\ forecastFetches[newToken] < MaxInFlight
              /\ forecastFetches' = [forecastFetches EXCEPT ![newToken] = @ + 1]
              /\ forecastTimer' = newToken
         ELSE /\ forecastTimer' = NoToken
              /\ UNCHANGED forecastFetches

\* ------------------------------------------------------ environment

\* Inbound frames, each with whether JSON.parse accepts its text: "not json",
\* a new_data message cut off before its end, a message of another type, and
\* a new_data message for each data point.
Frames ==
    { [json |-> FALSE, type |-> "", payload |-> NoPoint],
      [json |-> FALSE, type |-> "new_data", payload |-> NoPoint],
      [json |-> TRUE, type |-> "other", payload |-> NoPoint] }
    \cup { [json |-> TRUE, type |-> "new_data", payload |-> p] : p \in DataPoints }

\* A variant that reads the type without a successful parse.
IsNewDataUnparsed(frame) == frame.type = "new_data"

\* A variant that takes every message that parses for a new_data message.
IsNewDataOfAnyType(frame) == frame.json

\* JSON.parse(event.data) succeeds and message.type === 'new_data'
IsNewData(frame) == frame.json /\ frame.type = "new_data"

Ascending(s) == \A i \in 1..(Len(s) - 1) : Earlier(s[i].timestamp, s[i + 1].timestamp)

\* What GET /data/history may return: the points in chronological order.
Snapshots ==
    { s \in UNION { [1..n -> DataPoints] : n \in 0..Cardinality(Timestamps) } :
        Ascending(s) }

ForecastSnapshots ==
    { [present |-> TRUE, predicted |-> p, anomalies |-> a] :
        p \in { <<>>, <<ForecastPoint([day |-> 2, time |-> 1])>>,
                <<ForecastPoint([day |-> 2, time |-> 1]),
                  ForecastPoint([day |-> 2, time |-> 2])>> },
        a \in { <<>>, <<AnomalyRecord([day |-> 1, time |-> 1])>> } }

\* -------------------------------------------------------------- Init

EmptyChart == [labels |-> <<>>, actual |-> <<>>, predicted |-> <<>>, anomalies |-> <<>>]

\* The state after the first render and its effects: with a stored
\* credential the provider's effect has called fetchInitialHistory and
\* connect.
InitProvider ==
    /\ token \in {NoToken, "a"}
    /\ latestValue = NoPoint
    /\ history = <<>>
    /\ isConnected = FALSE
    /\ connectionError = NoError
    /\ reconnectTimeoutRef = 0
    /\ reconnectTimers = {}
    /\ historyFetches = [t \in Tokens |-> IF t = token THEN 1 ELSE 0]
    /\ sockets = Connect(<<>>, 0, token).sockets
    /\ wsRef = Connect(<<>>, 0, token).wsRef

\* LineChart after its first render, or not rendered.
InitLineChart ==
    /\ forecast = NoForecast
    /\ showForecast = TRUE
    /\ forecastTimer = NoToken
    /\ forecastFetches = [t \in Tokens |-> 0]
    /\ chart = EmptyChart

\* A route without LineChart (/login): the provider and its environment.
Init == InitProvider /\ InitLineChart /\ lineChartMounted = FALSE

\* The dashboard route.
InitDashboard == InitProvider /\ InitLineChart /\ lineChartMounted = TRUE

\* ----------------------------------------------------------- actions

\* login(newToken) / logout(): setToken, then the provider's effect cleanup
\* and, with a credential, fetchInitialHistory() and connect(); LineChart's
\* forecast effect runs too.
AuthChange(newToken) ==
    /\ newToken # token
    /\ newToken # NoToken =>
          Len(sockets) < MaxSockets /\ historyFetches[newToken] < MaxInFlight
    /\ token' = newToken
    /\ LET c == Connect(CleanupSockets(sockets, wsRef), wsRef, newToken)
       IN  /\ sockets' = c.sockets
           /\ wsRef' = c.wsRef
    /\ reconnectTimers' = CleanupTimers(reconnectTimers, reconnectTimeoutRef)
    /\ historyFetches' = IF newToken # NoToken
                         THEN [historyFetches EXCEPT ![newToken] = @ + 1]
                         ELSE historyFetches
    /\ ForecastEffect(newToken, Len(history))
    /\ UNCHANGED <<providerVars, reconnectTimeoutRef, forecast, showForecast, chart,
                   lineChartMounted>>

Login(t) == t \in Tokens /\ AuthChange(t)

Logout == token # NoToken /\ AuthChange(NoToken)

\* ws.onopen
SocketOpen(s) ==
    /\ sockets[s].readyState = "CONNECTING"
    /\ sockets' = [sockets EXCEPT ![s].readyState = "OPEN"]
    /\ isConnected' = TRUE
    /\ connectionError' = NoError
    /\ UNCHANGED <<token, latestValue, history, wsRef, reconnectTimeoutRef,
                   reconnectTimers, historyFetches, lineChartVars>>

\* ws.onmessage
SocketMessage(s, frame) ==
    /\ sockets[s].readyState = "OPEN"
    /\ IF IsNewData(frame)
       THEN /\ latestValue' = frame.payload
            /\ history' = HistoryAfterAppend(history, frame.payload)
            /\ ForecastEffect(token, Len(history'))
            /\ chart' = ChartUpdate(chart, history', forecast, showForecast)
       ELSE UNCHANGED <<latestValue, history, forecastTimer, forecastFetches, chart>>
    /\ UNCHANGED <<token, isConnected, connectionError, sessionVars, historyFetches,
                   forecast, showForecast, lineChartMounted>>

\* A variant of onerror that also marks the session disconnected.
SocketErrorDisconnects(s) ==
    /\ sockets[s].readyState # "CLOSED"
    /\ connectionError' = ConnectionErrorText
    /\ isConnected' = FALSE
    /\ UNCHANGED <<token, latestValue, history, sessionVars,
                   historyFetches, lineChartVars>>

\* ws.onerror
SocketError(s) ==
    /\ sockets[s].readyState # "CLOSED"
    /\ connectionError' = ConnectionErrorText
    /\ UNCHANGED <<token, latestValue, history, isConnected, sessionVars,
                   historyFetches, lineChartVars>>

\* ws.onclose
SocketClose(s, code) ==
    /\ sockets[s].readyState # "CLOSED"
    /\ code \in CloseEventCodes(sockets[s])
    /\ sockets' = [sockets EXCEPT ![s] = ClosedSocket]
    /\ isConnected' = FALSE
    /\ IF ShouldReconnect(code, sockets[s].token)
       THEN /\ reconnectTimers' = reconnectTimers \cup {ReconnectTimer(s)}
            /\ reconnectTimeoutRef' = s
       ELSE UNCHANGED <<reconnectTimers, reconnectTimeoutRef>>
    /\ UNCHANGED <<token, latestValue, history, connectionError, wsRef,
                   historyFetches, lineChartVars>>

\* A variant of the reconnect timeout whose callback does nothing.
ReconnectTimerFiresWithoutConnect(tm) ==
    /\ tm \in reconnectTimers
    /\ Len(sockets) < MaxSockets
    /\ reconnectTimers' = reconnectTimers \ {tm}
    /\ UNCHANGED <<token, providerVars, wsRef, sockets, reconnectTimeoutRef,
                   historyFetches, lineChartVars>>

\* the reconnect timeout's callback: connect()
ReconnectTimerFires(tm) ==
    /\ tm \in reconnectTimers
    /\ Len(sockets) < MaxSockets
    /\ reconnectTimers' = reconnectTimers \ {tm}
    /\ LET c == Connect(sockets, wsRef, tm.token)
       IN  /\ sockets' = c.sockets
           /\ wsRef' = c.wsRef
    /\ UNCHANGED <<token, providerVars, reconnectTimeoutRef, historyFetches,
                   lineChartVars>>

\* A variant of fetchInitialHistory that empties the history when the
\* request fails.
HistoryResponseFailureClears(t, ok, data) ==
    /\ historyFetches[t] > 0
    /\ historyFetches' = [historyFetches EXCEPT ![t] = @ - 1]
    /\ history' = IF ok THEN HistoryAfterSnapshot(history, data) ELSE <<>>
    /\ latestValue' = IF ok THEN LatestAfterSnapshot(latestValue, data) ELSE NoPoint
    /\ ForecastEffect(token, Len(history'))
    /\ chart' = ChartUpdate(chart, history', forecast, showForecast)
    /\ UNCHANGED <<token, isConnected, connectionError, sessionVars, forecast,
                   showForecast, lineChartMounted>>

\* fetchInitialHistory after its await: the response to a request made with
\* credential t.
HistoryResponse(t, ok, data) ==
    /\ historyFetches[t] > 0
    /\ historyFetches' = [historyFetches EXCEPT ![t] = @ - 1]
    /\ IF ok
       THEN /\ history' = HistoryAfterSnapshot(history, data)
            /\ latestValue' = LatestAfterSnapshot(latestValue, data)
            /\ ForecastEffect(token, Len(history'))
            /\ chart' = ChartUpdate(chart, history', forecast, showForecast)
       ELSE UNCHANGED <<history, latestValue, forecastTimer, forecastFetches, chart>>
    /\ UNCHANGED <<token, isConnected, connectionError, sessionVars, forecast,
                   showForecast, lineChartMounted>>

\* the Show Forecast checkbox
ToggleForecast ==
    /\ lineChartMounted
    /\ showForecast' = ~showForecast
    /\ chart' = ChartUpdate(chart, history, forecast, showForecast')
    /\ UNCHANGED <<token, providerVars, sessionVars, historyFetches, forecast,
                   forecastTimer, forecastFetches, lineChartMounted>>

\* the forecast interval's callback: fetchForecast()
ForecastTick ==
    /\ forecastTimer # NoToken
    /\ forecastFetches[forecastTimer] < MaxInFlight
    /\ forecastFetches' = [forecastFetches EXCEPT ![forecastTimer] = @ + 1]
    /\ UNCHANGED <<token, providerVars, sessionVars, historyFetches, forecast,
                   showForecast, forecastTimer, chart, lineChartMounted>>

\* fetchForecast after its await
ForecastResponse(t, ok, data) ==
    /\ forecastFetches[t] > 0
    /\ forecastFetches' = [forecastFetches EXCEPT ![t] = @ - 1]
    /\ IF ok
       THEN /\ forecast' = data
            /\ chart' = ChartUpdate(chart, history, data, showForecast)
       ELSE UNCHANGED <<forecast, chart>>
    /\ UNCHANGED <<token, providerVars, sessionVars, historyFetches, showForecast,
                   forecastTimer, lineChartMounted>>

\* The provider's handlers and the events of its environment.
Next ==
    \/ \E t \in Tokens : Login(t)
    \/ Logout
    \/ \E s \in SocketIds : SocketOpen(s)
    \/ \E s \in SocketIds, frame \in Frames : SocketMessage(s, frame)
    \/ \E s \in SocketIds : SocketError(s)
    \/ \E s \in SocketIds : \E code \in CloseEventCodes(sockets[s]) : SocketClose(s, code)
    \/ \E tm \in reconnectTimers : ReconnectTimerFires(tm)
    \/ \E t \in Tokens, ok \in BOOLEAN, data \in Snapshots : HistoryResponse(t, ok, data)

\* LineChart's handlers and the events of its environment.
NextLineChart ==
    \/ ToggleForecast
    \/ ForecastTick
    \/ \E t \in Tokens, ok \in BOOLEAN, data \in ForecastSnapshots :
          ForecastResponse(t, ok, data)

\* LineChart writes none of the provider's state: the provider behaves on
\* every route as it does under Spec.
Spec == Init /\ [][Next]_vars

\* The same handlers and events with the data reduced to one point: how the
\* session behaves does not depend on what the frames and snapshots carry.
FirstPoint == [timestamp |-> [day |-> 1, time |-> 1], value |-> Reading([day |-> 1, time |-> 1])]

SessionFrames == { f \in Frames : f.payload \in {NoPoint, FirstPoint} }

SessionSnapshots == { <<>>, <<FirstPoint>> }

NextSession ==
    \/ \E t \in Tokens : Login(t)
    \/ Logout
    \/ \E s \in SocketIds : SocketOpen(s)
    \/ \E s \in SocketIds, frame \in SessionFrames : SocketMessage(s, frame)
    \/ \E s \in SocketIds : SocketError(s)
    \/ \E s \in SocketIds : \E code \in CloseEventCodes(sockets[s]) : SocketClose(s, code)
    \/ \E tm \in reconnectTimers : ReconnectTimerFires(tm)
    \/ \E t \in Tokens, ok \in BOOLEAN, data \in SessionSnapshots :
          HistoryResponse(t, ok, data)

SpecSession == Init /\ [][NextSession]_vars

\* The session of one credential that stays: no login and no logout, so the
\* effect's cleanup never runs.  A timeout that is not cleared fires once its
\* delay has passed: the reconnect timer is weakly fair.  Whether a socket
\* opens, fails or closes is the network's choice.
InitReconnect == Init /\ token # NoToken

NextReconnect ==
    \/ \E s \in SocketIds : SocketOpen(s)
    \/ \E s \in SocketIds, frame \in SessionFrames : SocketMessage(s, frame)
    \/ \E s \in SocketIds : SocketError(s)
    \/ \E s \in SocketIds : \E code \in CloseEventCodes(sockets[s]) : SocketClose(s, code)
    \/ \E tm \in reconnectTimers : ReconnectTimerFires(tm)
    \/ \E t \in Tokens, ok \in BOOLEAN, data \in SessionSnapshots :
          HistoryResponse(t, ok, data)

SpecReconnect ==
    /\ InitReconnect
    /\ [][NextReconnect]_vars
    /\ WF_vars(\E tm \in reconnectTimers : ReconnectTimerFires(tm))

\* The dashboard route: LineChart over the provider.  LineChart reads the
\* credential and the history only, so the network is taken to be sound
\* here: sockets open and deliver frames, snapshots arrive, and no error
\* or close event is delivered; there is one user, and the readings are
\* those of one day.
DashboardTokens == {"a"}

DashboardPoints == { p \in DataPoints : p.timestamp.day = 1 }

DashboardFrames == { f \in Frames : f.payload \in DashboardPoints \cup {NoPoint} }

DashboardSnapshots == { d \in Snapshots : \A i \in 1..Len(d) : d[i] \in DashboardPoints }

NextDashboard ==
    \/ \E t \in DashboardTokens : Login(t)
    \/ Logout
    \/ \E s \in SocketIds : SocketOpen(s)
    \/ \E s \in SocketIds, frame \in DashboardFrames : SocketMessage(s, frame)
    \/ \E t \in Tokens, ok \in BOOLEAN, data \in DashboardSnapshots :
          HistoryResponse(t, ok, data)
    \/ NextLineChart

SpecDashboard == InitDashboard /\ [][NextDashboard]_vars

\* The dashboard route again, for the forecast effect: it reads the
\* credential and the length of the history, so the readings are those of
\* both days (a snapshot may be longer than the capacity), while the
\* checkbox is left alone and every forecast response carries the same
\* snapshot.
ForecastEffectSnapshots ==
    { f \in ForecastSnapshots : Len(f.predicted) = 1 /\ f.anomalies = <<>> }

NextForecastEffect ==
    \/ \E t \in DashboardTokens : Login(t)
    \/ Logout
    \/ \E s \in SocketIds : SocketOpen(s)
    \/ \E s \in SocketIds, frame \in Frames : SocketMessage(s, frame)
    \/ \E t \in Tokens, ok \in BOOLEAN, data \in Snapshots : HistoryResponse(t, ok, data)
    \/ ForecastTick
    \/ \E t \in Tokens, ok \in BOOLEAN, data \in ForecastEffectSnapshots :
          ForecastResponse(t, ok, data)

SpecForecastEffect == InitDashboard /\ [][NextForecastEffect]_vars

\* ------------------------------------------------------------ claims

NonDecreasing(h) ==
    \A i \in 1..(Len(h) - 1) : ~Earlier(h[i + 1].timestamp, h[i].timestamp)

\* C1: in every reachable state the published history holds at most
\* maxHistoryLength points.
C1_HistoryWithinCapacity == Len(history) <= maxHistoryLength

\* C2: when a new_data frame whose timestamp is strictly earlier than that of
\* the history's last point is handled, a history in non-decreasing timestamp
\* order stays in non-decreasing timestamp order.
C2_StaleAppendKeepsOrder ==
    [][\A s \in SocketIds : \A f \in Frames :
          ( /\ SocketMessage(s, f)
            /\ IsNewData(f)
            /\ history # <<>>
            /\ NonDecreasing(history)
            /\ Earlier(f.payload.timestamp, history[Len(history)].timestamp) )
          => NonDecreasing(history')]_vars

\* C3: a close event with code 1000 sets no reconnect timer; a close event
\* with any other code, handled while a credential is present, sets exactly
\* one: a new timer, with the fixed delay, whose callback is connect under
\* the closed socket's credential.
C3_CloseSchedulesReconnect ==
    [][\A s \in SocketIds : \A code \in CloseEventCodes(sockets[s]) :
          SocketClose(s, code) =>
             IF code = NormalClosure
             THEN reconnectTimers' = reconnectTimers
             ELSE token # NoToken =>
                    \E tm \in reconnectTimers' \ reconnectTimers :
                       /\ reconnectTimers' = reconnectTimers \cup {tm}
                       /\ tm.delay = ReconnectDelay
                       /\ tm.token = sockets[s].token]_vars

\* C3, reached: a reconnect timer is pending after an abnormal close, with a
\* credential present.
C3_Witness ==
    /\ token # NoToken
    /\ \E tm \in reconnectTimers :
          tm.delay = ReconnectDelay /\ sockets[tm.id].readyState = "CLOSED"

\* A connection that is open, or was open and has not finished its closing
\* handshake.
Live(sock) ==
    \/ sock.readyState = "OPEN"
    \/ sock.readyState = "CLOSING" /\ sock.closing \in {"normal", "nocode"}

\* C4: no two connections of the session are live at once: while one is
\* open, every connection opened before it is fully closed.
C4_PriorClosedBeforeNewLive ==
    \A i \in SocketIds : \A j \in SocketIds :
       (i # j /\ sockets[i].readyState = "OPEN") => ~Live(sockets[j])

\* C5: every connection that is opened is opened with the credential that is
\* current at that moment.
C5_ConnectsWithCurrentCredential ==
    [][\A i \in 1..Len(sockets') :
          i > Len(sockets) => sockets'[i].token = token']_vars

\* C6: no reconnect timer of a torn-down session is pending: every pending
\* reconnect timer belongs to the session of the current credential, and
\* none is pending while the credential is absent.
C6_NoTimerOfTornDownSession ==
    \A tm \in reconnectTimers : tm.token = token

\* C7: when the credential becomes absent while the session is connected,
\* the history, the latest value and the forecast snapshot are cleared.
C7_LogoutClearsBuffers ==
    [][(token # NoToken /\ token' = NoToken /\ isConnected)
          => (history' = <<>> /\ latestValue' = NoPoint /\ forecast' = NoForecast)]_vars

\* C8: handling a frame that fails to parse changes nothing: the session
\* stays connected, history and latest value are unchanged, no socket is
\* closed, no timer is set and no connectionError is published.
C8_MalformedFrameIgnored ==
    [][\A s \in SocketIds : \A f \in Frames :
          (~f.json /\ SocketMessage(s, f)) =>
             UNCHANGED <<isConnected, history, latestValue, connectionError,
                         sockets, wsRef, reconnectTimers>>]_vars

\* C8, reached: a connected session with buffered data and no error shown,
\* whose open socket can deliver a frame; it is also the state a frame that
\* fails to parse leaves behind.
C8_Witness ==
    /\ isConnected
    /\ connectionError = NoError
    /\ history # <<>>
    /\ \E s \in SocketIds : sockets[s].readyState = "OPEN"

\* C9: a transport error event publishes the connection-error message and
\* changes nothing else: not isConnected, the history or the latest value,
\* no socket's state and no reconnect timer.
C9_ErrorOnlyRecordsMessage ==
    [][\A s \in SocketIds :
          SocketError(s) =>
             /\ connectionError' = ConnectionErrorText
             /\ UNCHANGED <<isConnected, history, latestValue, sockets, wsRef,
                            reconnectTimers, reconnectTimeoutRef, token>>]_vars

\* C9, reached: the error message is published while the session is still
\* connected on an open socket and no reconnect is pending.
C9_Witness ==
    /\ connectionError = ConnectionErrorText
    /\ isConnected
    /\ reconnectTimers = {}
    /\ \E s \in SocketIds : sockets[s].readyState = "OPEN"

\* The timestamp at position i of the merged timeline: the history's, then
\* the predicted points'.
TimelineTimestamp(i) ==
    IF i <= Len(history) THEN history[i].timestamp
    ELSE forecast.predicted[i - Len(history)].timestamp

Merging == lineChartMounted /\ showForecast /\ forecast.present /\ history # <<>>

\* C10 as stated, its labels: the labels of the merged timeline are the
\* timestamps, so positions with different timestamps carry different labels.
C10_LabelsAreTimestamps ==
    Merging =>
       \A i \in 1..Len(chart.labels) : \A j \in 1..Len(chart.labels) :
          chart.labels[i] = chart.labels[j] => TimelineTimestamp(i) = TimelineTimestamp(j)

\* C10, amended: with forecast display on, a non-empty history H and a
\* forecast snapshot with predicted points P, the chart holds |H| + |P|
\* labels and values per series; the labels are the local time of day of the
\* timestamps of H, then of P; actual is the values of H, then nulls;
\* predicted is null before the last point of H, the last value of H at it,
\* then the values of P.
C10_MergedTimeline ==
    Merging =>
       LET n == Len(history)
           m == Len(forecast.predicted)
       IN  /\ Len(chart.labels) = n + m
           /\ Len(chart.actual) = n + m
           /\ Len(chart.predicted) = n + m
           /\ \A i \in 1..n :
                 /\ chart.labels[i] = toLocaleTimeString(history[i].timestamp)
                 /\ chart.actual[i] = Cell(history[i].value)
                 /\ chart.predicted[i] = IF i = n THEN Cell(history[n].value) ELSE Null
           /\ \A k \in 1..m :
                 /\ chart.labels[n + k] = toLocaleTimeString(forecast.predicted[k].timestamp)
                 /\ chart.actual[n + k] = Null
                 /\ chart.predicted[n + k] = Cell(forecast.predicted[k].value)

\* C10, reached: two buffered points and one predicted point are merged,
\* with the join point on the last buffered value.
C10_Witness ==
    /\ Merging
    /\ Len(history) = 2
    /\ Len(forecast.predicted) = 1
    /\ chart.actual = <<Cell(history[1].value), Cell(history[2].value), Null>>
    /\ chart.predicted =
          <<Null, Cell(history[2].value), Cell(forecast.predicted[1].value)>>

\* C11: toggling forecast display off over a non-empty history leaves the
\* chart with the actual series only: the labels and values of the history,
\* no predicted value and no anomaly marker, whatever forecast snapshot is
\* held; and the toggle issues no forecast fetch.
C11_ToggleOffCollapses ==
    [][(ToggleForecast /\ ~showForecast' /\ history # <<>>) =>
          /\ chart'.labels =
                [i \in 1..Len(history) |-> toLocaleTimeString(history[i].timestamp)]
          /\ chart'.actual = [i \in 1..Len(history) |-> Cell(history[i].value)]
          /\ \A i \in 1..Len(chart'.predicted) : chart'.predicted[i] = Null
          /\ \A i \in 1..Len(chart'.anomalies) : chart'.anomalies[i] = Null
          /\ forecastFetches' = forecastFetches]_vars

\* C12: a failed fetch of the history snapshot or of the forecast changes
\* nothing but the request's being pending: history, latest value, forecast
\* snapshot, chart and connection state stay, no error is published, no
\* reconnect or forecast timer changes and no request is issued again.
C12_FailedFetchChangesNothing ==
    [][/\ \A t \in Tokens : \A d \in Snapshots :
             HistoryResponse(t, FALSE, d) =>
                /\ UNCHANGED <<history, latestValue, forecast, chart, isConnected,
                               connectionError, sockets, wsRef, reconnectTimers,
                               forecastTimer, forecastFetches, token>>
                /\ historyFetches' = [historyFetches EXCEPT ![t] = @ - 1]
       /\ \A t \in Tokens : \A d \in ForecastSnapshots :
             ForecastResponse(t, FALSE, d) =>
                /\ UNCHANGED <<history, latestValue, forecast, chart, isConnected,
                               connectionError, sockets, wsRef, reconnectTimers,
                               forecastTimer, historyFetches, token>>
                /\ forecastFetches' = [forecastFetches EXCEPT ![t] = @ - 1]]_vars

\* C12, reached: no request is pending any more and the state the session
\* built is in place: connected, buffered points with the latest value at
\* their end, a forecast snapshot, its interval, and no error.
C12_Witness ==
    /\ token # NoToken
    /\ \A t \in Tokens : historyFetches[t] = 0 /\ forecastFetches[t] = 0
    /\ isConnected
    /\ connectionError = NoError
    /\ history # <<>>
    /\ latestValue = history[Len(history)]
    /\ forecast.present
    /\ forecastTimer = token

\* C13: a forecast request is issued only with the current credential and
\* only when, after the render that issues it, a credential is present and
\* the history holds at least minForecastPoints points.
C13_ForecastFetchOnlyWhenWanted ==
    [][\A t \in Tokens :
          forecastFetches'[t] > forecastFetches[t] =>
             /\ token' = t
             /\ Len(history') >= minForecastPoints]_vars

\* C13, reached: a forecast request is pending under the current credential
\* with enough points buffered.
C13_Witness ==
    /\ token # NoToken
    /\ forecastFetches[token] > 0
    /\ Len(history) >= minForecastPoints
    /\ forecastTimer = token

\* C14: the forecast interval is pending only while a credential is present
\* and the history holds at least minForecastPoints points, and it is the
\* interval of the current credential.  (An effect run clears the interval
\* of the run before it, so there is one interval at most.)
C14_ForecastTimerOnlyWhileWanted ==
    forecastTimer # NoToken =>
       /\ token # NoToken
       /\ forecastTimer = token
       /\ Len(history) >= minForecastPoints

\* C14, reached: the interval is gone after the credential was cleared,
\* although a forecast was fetched and enough points are still buffered.
C14_Witness ==
    /\ lineChartMounted
    /\ token = NoToken
    /\ forecastTimer = NoToken
    /\ forecast.present
    /\ Len(history) >= minForecastPoints

\* The last n entries of s, in the order of s; s itself when it has no more
\* than n.
LastEntries(s, n) ==
    LET k == IF Len(s) > n THEN n ELSE Len(s)
    IN  [i \in 1..k |-> s[Len(s) - k + i]]

\* C15: handling a new_data frame leaves as history the last
\* maxHistoryLength entries of the previous history followed by the frame's
\* payload: the payload is at the end, the order of the others is kept and
\* entries are lost at the front only.
C15_AppendEvictsFromFront ==
    [][\A s \in SocketIds : \A f \in Frames :
          (SocketMessage(s, f) /\ IsNewData(f)) =>
             history' = LastEntries(Append(history, f.payload), maxHistoryLength)]_vars

\* C15, reached: a full history that appends have built (a snapshot is in
\* chronological order, this history is not), with the last payload at its
\* end.
C15_Witness ==
    /\ Len(history) = maxHistoryLength
    /\ ~Ascending(history)
    /\ latestValue = history[Len(history)]

\* C16: a successful snapshot load leaves as history the last
\* maxHistoryLength entries of the supplied sequence, in the supplied order.
C16_SnapshotKeepsLastEntries ==
    [][\A t \in Tokens : \A d \in Snapshots :
          HistoryResponse(t, TRUE, d) =>
             history' = LastEntries(d, maxHistoryLength)]_vars

\* C17: after a successful snapshot load the latest value is the last
\* element of the supplied sequence, and none when the sequence is empty.
C17_LatestIsSnapshotTail ==
    [][\A t \in Tokens : \A d \in Snapshots :
          HistoryResponse(t, TRUE, d) =>
             latestValue' = IF d = <<>> THEN NoPoint ELSE d[Len(d)]]_vars

\* C18: over a non-empty history the anomaly series has one cell per point
\* of the history and no more: the point's value if its timestamp is that of
\* an anomaly record of the forecast snapshot held, null otherwise.
C18_AnomalySeries ==
    (lineChartMounted /\ history # <<>>) =>
       /\ Len(chart.anomalies) = Len(history)
       /\ \A i \in 1..Len(history) :
             chart.anomalies[i] =
                IF \E k \in 1..Len(forecast.anomalies) :
                      forecast.anomalies[k].timestamp = history[i].timestamp
                THEN Cell(history[i].value)
                ELSE Null

\* C18, reached: a merged timeline with predicted points, one actual point
\* marked and another not.
C18_Witness ==
    /\ Merging
    /\ Len(forecast.predicted) > 0
    /\ Len(chart.labels) > Len(chart.anomalies)
    /\ \E i \in 1..Len(chart.anomalies) : chart.anomalies[i] # Null
    /\ \E j \in 1..Len(chart.anomalies) : chart.anomalies[j] = Null

\* C19: while the credential is absent no operation does anything: no
\* connection is opened, no snapshot request and no forecast request is
\* issued.
C19_NoCredentialNoOp ==
    [][(token = NoToken /\ token' = NoToken) =>
          /\ Len(sockets') = Len(sockets)
          /\ \A t \in Tokens : historyFetches'[t] <= historyFetches[t]
          /\ \A t \in Tokens : forecastFetches'[t] <= forecastFetches[t]]_vars

\* C20: in the session of a credential that stays, a reconnect timer set by
\* a close with a code other than 1000 leads to a new connection attempt
\* (as long as the run may still create a socket), and the attempt's opening
\* makes the session connected.
C20_AutoReconnect ==
    /\ \A n \in 1..(MaxSockets - 1) :
          (reconnectTimers # {} /\ Len(sockets) = n) ~> (Len(sockets) > n)
    /\ [][\A s \in SocketIds : SocketOpen(s) => isConnected']_vars

\* C20, reached: the first connection was closed, a later attempt that the
\* timer started has opened, and the session is connected again.
C20_Witness ==
    /\ token # NoToken
    /\ Len(sockets) > 1
    /\ sockets[1].readyState = "CLOSED"
    /\ sockets[Len(sockets)].readyState = "OPEN"
    /\ isConnected
    /\ reconnectTimers = {}

\* C21: a closing handshake that the provider started on an open connection
\* and that completes carries code 1000, and its close event sets no
\* reconnect timer.
C21_OwnCloseIsIntentional ==
    [][\A s \in SocketIds : \A code \in CloseEventCodes(sockets[s]) :
          ( /\ SocketClose(s, code)
            /\ sockets[s].readyState = "CLOSING"
            /\ Live(sockets[s])
            /\ code # AbnormalCode )
          => (code = NormalClosure /\ reconnectTimers' = reconnectTimers)]_vars

\* C22: what the provider publishes tells a session that is connecting or
\* waiting to reconnect from a disconnected one: the values published by a
\* provider without credential and without connection (not connected, no
\* error, no data) are published only when no socket is connecting and no
\* reconnect timer is pending.
C22_PhasesDistinguishable ==
    (~isConnected /\ connectionError = NoError /\ history = <<>> /\ latestValue = NoPoint)
       => /\ \A s \in SocketIds : sockets[s].readyState # "CONNECTING"
          /\ reconnectTimers = {}

\* C23: handling a frame that parses and whose type is not new_data changes
\* nothing: history, latest value, isConnected and connectionError stay, no
\* socket is closed and no timer is set.
C23_UnknownTypeIgnored ==
    [][\A s \in SocketIds : \A f \in Frames :
          (f.json /\ f.type # "new_data" /\ SocketMessage(s, f)) =>
             UNCHANGED <<history, latestValue, isConnected, connectionError,
                         sockets, wsRef, reconnectTimers, historyFetches>>]_vars

\* C23, reached: the current socket is open and can deliver a frame, the
\* session is connected with a streamed point as its latest value, and
\* neither an error nor a reconnect is pending.
C23_Witness ==
    /\ wsRef # 0
    /\ sockets[wsRef].readyState = "OPEN"
    /\ isConnected
    /\ latestValue = FirstPoint
    /\ history # <<>>
    /\ connectionError = NoError
    /\ reconnectTimers = {}

\* C24: a successful snapshot load whose last point is older than the latest
\* value published, over a non-empty history, leaves the latest value as it
\* is.
C24_SnapshotNeverMovesLatestBack ==
    [][\A t \in Tokens : \A d \in Snapshots :
          ( /\ HistoryResponse(t, TRUE, d)
            /\ d # <<>>
            /\ history # <<>>
            /\ Earlier(d[Len(d)].timestamp, latestValue.timestamp) )
          => latestValue' = latestValue]_vars

\* C25: in every state the chart holds the merge of the current history,
\* the current forecast snapshot and the current toggle, and nothing when
\* the history is empty.
C25_ChartIsMergeOfCurrentState ==
    lineChartMounted =>
       chart = ChartUpdate(EmptyChart, history, forecast, showForecast)

\* C26: in every state the latest value is the last element of the history,
\* and none when the history is empty.
C26_LatestIsLastOfHistory ==
    latestValue = IF history = <<>> THEN NoPoint ELSE history[Len(history)]

\* C27: isConnected is true exactly when the socket the session holds
\* (wsRef.current) has opened and has not yet closed.
C27_ConnectedIsCurrentSocket ==
    isConnected <=> (wsRef # 0 /\ Live(sockets[wsRef]))

\* C28: the response to a snapshot request or to a forecast request made
\* under a credential that is no longer the current one modifies neither the
\* history and the latest value nor the forecast snapshot.
C28_StaleResponsesIgnored ==
    [][/\ \A t \in Tokens : \A d \in Snapshots :
             (HistoryResponse(t, TRUE, d) /\ t # token) =>
                UNCHANGED <<history, latestValue>>
       /\ \A t \in Tokens : \A d \in ForecastSnapshots :
             (ForecastResponse(t, TRUE, d) /\ t # token) =>
                forecast' = forecast]_vars

\* C29: while the credential stays, a render after which the history has a
\* different length and holds at least minForecastPoints points issues one
\* forecast request and leaves an interval pending; a change of the history
\* that keeps its length issues none and leaves the interval as it is; and a
\* forecast request is issued only by such a change of length or by a tick
\* of the pending interval.
C29_RefetchOnLengthChange ==
    [][(lineChartMounted /\ token # NoToken /\ token' = token) =>
          /\ (Len(history') # Len(history) /\ Len(history') >= minForecastPoints) =>
                /\ forecastFetches'[token] = forecastFetches[token] + 1
                /\ forecastTimer' = token
          /\ (Len(history') = Len(history) /\ history' # history) =>
                UNCHANGED <<forecastFetches, forecastTimer>>
          /\ \A t \in Tokens :
                forecastFetches'[t] > forecastFetches[t] =>
                   \/ Len(history') # Len(history)
                   \/ forecastTimer = t /\ UNCHANGED <<history, forecastTimer>>]_vars

\* C29, reached: after a forecast was fetched, the history has grown past
\* the threshold, and a new request is pending with the interval set.
C29_Witness ==
    /\ token # NoToken
    /\ forecast.present
    /\ Len(history) > minForecastPoints
    /\ forecastFetches[token] = 1
    /\ forecastTimer = token
====
